---- MODULE Spec2Model ----
(***************************************************************************)
(* Model of the entity/component store of src/engine/ecs.rs (struct Scene) *)
(*                                                                         *)
(* entities       : HashMap<Entity, Vec<(TypeId, usize)>>                  *)
(* component_vecs : HashMap<TypeId, Box<dyn ComponentVec>>, each column a  *)
(*                  Vec<(Entity, T)>                                       *)
(*                                                                         *)
(* Rust indices are 0-based; a row at Rust index i of a column vec is      *)
(* vec[i + 1] here.  A reference is the pair <<type_id, index>> and a row  *)
(* is the pair <<entity, component>>.                                      *)
(***************************************************************************)
EXTENDS Integers, Sequences, FiniteSets, TLC

\* Bounds of the exploration.
MaxSpawns == 4
MaxRows == 2

\* Component types (Dummy1 of the tests, MeshComponent read by the renderer)
\* and component values.
Types == {"Dummy1", "MeshComponent"}
Values == {1, 2}

\* Handles a caller may pass: every handle spawn_entity can return within
\* the bound, and one that is never live.
Handles == 0..MaxSpawns

VARIABLES
    entities,        \* Scene.entities
    component_vecs,  \* Scene.component_vecs
    pc,              \* position of the caller: "idle" or inside remove_entity
    panicked,        \* a panic (failed assert!, unwrap, index) ended the run
    call,            \* the call in progress or last completed, with its arguments
    spawns,          \* history: number of spawn_entity calls
    removes,         \* history: number of remove_entity calls that returned
    returned,        \* history: handles returned by spawn_entity so far
    camera,          \* Scene.camera: TRUE when it is Some
    ever_added,      \* history: types of the entity_add_component calls that returned
    adds,            \* history: for each live entity, the types of the
                     \* entity_add_component calls made for it, in call order
    inner_types,     \* for each key of component_vecs, the element type T of
                     \* the Vec<(Entity, T)> boxed under it
    keyboard_state,  \* InputHandler.keyboard_state
    frame_events,    \* history: events given to InputHandler::update since the last step()
    phase,           \* Application: position in the event loop
    exit_on_escape,  \* Application.exit_on_escape
    reported,        \* Application: keys on_update saw as held, Some(..) after on_update
    next_id,         \* MaterialManager.next_id
    materials,       \* MaterialManager.materials
    issued           \* history: for each id new_material returned, what that call created

\* Variables of the application loop and its input handler
input_vars == <<keyboard_state, frame_events, phase, exit_on_escape, reported>>

\* Variables of the material manager
material_vars == <<next_id, materials, issued>>

\* Variables outside the entity/component store
engine_vars == <<input_vars, material_vars>>

\* Variables of the entity/component store
scene_vars == <<entities, component_vecs, pc, spawns, removes, returned,
                camera, ever_added, adds, inner_types>>

vars == <<entities, component_vecs, pc, panicked, call, spawns, removes, returned,
          camera, ever_added, adds, inner_types, keyboard_state, frame_events,
          phase, exit_on_escape, reported, next_id, materials, issued>>

scene == [entities |-> entities, component_vecs |-> component_vecs]

----------------------------------------------------------------------------
\* HashMap and Vec primitives

\* HashMap::insert: adds the key or replaces the value stored under it.
insert(map, key, value) ==
    [k \in DOMAIN map \cup {key} |-> IF k = key THEN value ELSE map[k]]

\* HashMap::remove written as a retain that also drops every later key
remove_retain(map, key) ==
    [k \in {x \in DOMAIN map : x < key} |-> map[k]]

\* HashMap::remove
remove(map, key) ==
    [k \in DOMAIN map \ {key} |-> map[k]]

\* Vec::pop, the vec that is left (the vec is not empty)
pop(vec) ==
    SubSeq(vec, 1, Len(vec) - 1)

\* ComponentVec::len
len(vec) ==
    Len(vec)

\* ComponentVec::get_entity (index < len; None is never unwrapped by the model)
get_entity(vec, index) ==
    vec[index + 1][1]

\* ComponentVec::swap_remove for index < len: the last row takes the place
\* of the removed one and the vec is truncated by one.
swap_remove(vec, index) ==
    [j \in 1..(Len(vec) - 1) |-> IF j = index + 1 THEN vec[Len(vec)] ELSE vec[j]]

\* Number of rows held by all columns together (bounded by MaxRows)
total_rows ==
    LET RECURSIVE sum(_)
        sum(S) == IF S = {} THEN 0
                  ELSE LET k == CHOOSE x \in S : TRUE
                       IN  len(component_vecs[k]) + sum(S \ {k})
    IN  sum(DOMAIN component_vecs)

\* a box holding a vec of entities instead of a vec of (Entity, T) rows
boxed_type_entity(T) ==
    "Entity"

\* Element type of the vec![(entity, component)] that
\* entity_add_component::<T> boxes: component has type T.
boxed_type(T) ==
    T

\* the guard of the repoint with the bound off by one
row_moved_short(index, component_vec) ==
    index + 1 < len(component_vec)

\* Scene::entity_remove_last_component, the guard of the repoint: after the
\* swap_remove, a row has moved to index when index is below the new length.
row_moved(index, component_vec) ==
    index < len(component_vec)

\* ComponentVec::inner_type_id of the column registered under key
inner_type_id(key) ==
    inner_types[key]

\* Scene::entity_count
entity_count ==
    Cardinality(DOMAIN entities)

\* update_entity with the repoint forgotten: the list is left as it is.
update_entity_stale(ents, entity, type_id, old_index, new_index) ==
    ents

\* update_entity pushing the new reference and leaving the stale one
update_entity_append(ents, entity, type_id, old_index, new_index) ==
    [ents EXCEPT ![entity] = Append(@, <<type_id, new_index>>)]

\* Scene::update_entity on the directory ents: the first reference equal to
\* (type_id, old_index) in the entity's list is rewritten, nothing else.
update_entity(ents, entity, type_id, old_index, new_index) ==
    LET refs == ents[entity]
        hits == {j \in 1..Len(refs) : refs[j] = <<type_id, old_index>>}
    IN  IF hits = {}
        THEN ents
        ELSE LET first == CHOOSE j \in hits : \A h \in hits : j <= h
             IN  [ents EXCEPT ![entity][first] = <<type_id, new_index>>]

----------------------------------------------------------------------------
\* ApplicationInfo::default()
ApplicationInfo_default ==
    [exit_on_escape |-> FALSE]

\* Application::run_application(application_info): Scene::new,
\* InputHandler::new, MaterialManager::new and the Application fields
run_application(application_info) ==
    /\ entities = <<>>
    /\ component_vecs = <<>>
    /\ pc = "idle"
    /\ panicked = FALSE
    /\ call = [op |-> "new"]
    /\ spawns = 0
    /\ removes = 0
    /\ returned = {}
    /\ camera = FALSE
    /\ ever_added = {}
    /\ adds = <<>>
    /\ inner_types = <<>>
    /\ keyboard_state = <<>>
    /\ frame_events = <<>>
    /\ phase = "NewEvents"
    /\ exit_on_escape = application_info.exit_on_escape
    /\ reported = <<>>
    /\ next_id = 0
    /\ materials = <<>>
    /\ issued = <<>>

\* The engine as an application with the default ApplicationInfo starts it
Init ==
    run_application(ApplicationInfo_default)

\* spawn_entity numbering the handles from one
spawn_entity_one_based ==
    /\ pc = "idle" /\ ~panicked
    /\ spawns < MaxSpawns
    /\ LET entity == Cardinality(DOMAIN entities) + 1
       IN  /\ entities' = insert(entities, entity, <<>>)
           /\ call' = [op |-> "spawn_entity", entity |-> entity]
           /\ returned' = returned \cup {entity}
           /\ adds' = IF entity \in DOMAIN adds THEN adds ELSE insert(adds, entity, <<>>)
    /\ spawns' = spawns + 1
    /\ UNCHANGED <<inner_types, engine_vars>>
    /\ UNCHANGED <<component_vecs, pc, panicked, removes, camera, ever_added>>

\* Scene::spawn_entity
spawn_entity ==
    /\ pc = "idle" /\ ~panicked
    /\ spawns < MaxSpawns
    /\ LET entity == Cardinality(DOMAIN entities)
       IN  /\ entities' = insert(entities, entity, <<>>)
           /\ call' = [op |-> "spawn_entity", entity |-> entity]
           /\ returned' = returned \cup {entity}
           /\ adds' = IF entity \in DOMAIN adds THEN adds ELSE insert(adds, entity, <<>>)
    /\ spawns' = spawns + 1
    /\ UNCHANGED <<inner_types, engine_vars>>
    /\ UNCHANGED <<component_vecs, pc, panicked, removes, camera, ever_added>>

\* entity_add_component without the assert!: the directory entry is created
\* on demand (entry(entity).or_default()).
entity_add_component_unchecked(entity, T, component) ==
    /\ pc = "idle" /\ ~panicked
    /\ call' = [op |-> "entity_add_component", entity |-> entity, type_id |-> T,
                component |-> component]
    /\ panicked' = FALSE
    /\ total_rows < MaxRows
    /\ ever_added' = ever_added \cup {T}
    /\ adds' = insert(adds, entity,
                      Append(IF entity \in DOMAIN adds THEN adds[entity] ELSE <<>>, T))
    /\ inner_types' = insert(inner_types, T, boxed_type(T))
    /\ LET component_vec == IF T \in DOMAIN component_vecs THEN component_vecs[T] ELSE <<>>
           refs == IF entity \in DOMAIN entities THEN entities[entity] ELSE <<>>
       IN  /\ entities' = insert(entities, entity, Append(refs, <<T, len(component_vec)>>))
           /\ component_vecs' = insert(component_vecs, T,
                                       Append(component_vec, <<entity, component>>))
    /\ UNCHANGED engine_vars
    /\ UNCHANGED <<pc, spawns, removes, returned, camera>>

\* entity_add_component recording the reference after the push of the row:
\* the index it stores is the length of the column after the push.
entity_add_component_late(entity, T, component) ==
    /\ pc = "idle" /\ ~panicked
    /\ call' = [op |-> "entity_add_component", entity |-> entity, type_id |-> T,
                component |-> component]
    /\ IF entity \notin DOMAIN entities
       THEN /\ panicked' = TRUE
            /\ UNCHANGED <<entities, component_vecs, ever_added, adds, inner_types>>
       ELSE /\ panicked' = FALSE
            /\ total_rows < MaxRows
            /\ inner_types' = insert(inner_types, T, boxed_type(T))
            /\ ever_added' = ever_added \cup {T}
            /\ adds' = [adds EXCEPT ![entity] = Append(@, T)]
            /\ IF T \in DOMAIN component_vecs
               THEN /\ component_vecs' = [component_vecs EXCEPT ![T] =
                                            Append(@, <<entity, component>>)]
                    /\ entities' = [entities EXCEPT ![entity] =
                                            Append(@, <<T, len(component_vecs'[T])>>)]
               ELSE /\ entities' = [entities EXCEPT ![entity] = Append(@, <<T, 0>>)]
                    /\ component_vecs' = insert(component_vecs, T, <<<<entity, component>>>>)
    /\ UNCHANGED engine_vars
    /\ UNCHANGED <<pc, spawns, removes, returned, camera>>

\* Scene::entity_add_component::<T>(entity, component)
entity_add_component(entity, T, component) ==
    /\ pc = "idle" /\ ~panicked
    /\ call' = [op |-> "entity_add_component", entity |-> entity, type_id |-> T,
                component |-> component]
    /\ IF entity \notin DOMAIN entities
       THEN \* assert! fails
            /\ panicked' = TRUE
            /\ UNCHANGED <<entities, component_vecs, ever_added, adds, inner_types>>
       ELSE /\ total_rows < MaxRows
            /\ IF T \in DOMAIN component_vecs
               THEN IF inner_types[T] # T
                    THEN \* downcast_mut::<Vec<(Entity, T)>>().unwrap() panics
                         /\ panicked' = TRUE
                         /\ UNCHANGED <<entities, component_vecs, ever_added, adds,
                                        inner_types>>
                    ELSE LET component_vec == component_vecs[T]
                         IN  /\ panicked' = FALSE
                             /\ entities' = [entities EXCEPT ![entity] =
                                                 Append(@, <<T, len(component_vec)>>)]
                             /\ component_vecs' = [component_vecs EXCEPT ![T] =
                                                 Append(@, <<entity, component>>)]
                             /\ ever_added' = ever_added \cup {T}
                             /\ adds' = [adds EXCEPT ![entity] = Append(@, T)]
                             /\ UNCHANGED inner_types
               ELSE /\ panicked' = FALSE
                    /\ entities' = [entities EXCEPT ![entity] = Append(@, <<T, 0>>)]
                    /\ component_vecs' = insert(component_vecs, T, <<<<entity, component>>>>)
                    /\ inner_types' = insert(inner_types, T, boxed_type(T))
                    /\ ever_added' = ever_added \cup {T}
                    /\ adds' = [adds EXCEPT ![entity] = Append(@, T)]
    /\ UNCHANGED engine_vars
    /\ UNCHANGED <<pc, spawns, removes, returned, camera>>

\* Scene::entity_remove_last_component(entity), with the update_entity call
\* it makes; call.repoint records the arguments of that call, if it is made.
\* Every unwrap and the bounds check of Vec::swap_remove panic
\* at the point the code reaches them, after the mutations made so far.
entity_remove_last_component(entity) ==
    LET refs == entities[entity]
    IN  IF refs = <<>>
        THEN /\ panicked' = FALSE
             /\ UNCHANGED <<entities, component_vecs, call>>
        ELSE LET type_id == refs[Len(refs)][1]
                 index == refs[Len(refs)][2]
                 popped == [entities EXCEPT ![entity] = pop(refs)]
             IN  IF type_id \notin DOMAIN component_vecs
                    \/ index >= len(component_vecs[type_id])
                 THEN \* get_mut(..).unwrap() or Vec::swap_remove panics
                      /\ entities' = popped
                      /\ panicked' = TRUE
                      /\ call' = [call EXCEPT !.removals = @ + 1, !.repoint = <<>>]
                      /\ UNCHANGED component_vecs
                 ELSE LET component_vec == swap_remove(component_vecs[type_id], index)
                      IN  /\ component_vecs' = [component_vecs EXCEPT ![type_id] = component_vec]
                          /\ IF row_moved(index, component_vec)
                             THEN LET old_index == len(component_vec)
                                      new_index == index
                                      entity_to_update == get_entity(component_vec, new_index)
                                  IN  /\ call' = [call EXCEPT
                                                    !.removals = @ + 1,
                                                    !.repoint = <<<<entity_to_update, type_id,
                                                                    old_index, new_index>>>>]
                                      /\ IF entity_to_update \notin DOMAIN popped
                                         THEN \* get_mut(&entity).unwrap() panics
                                              /\ entities' = popped
                                              /\ panicked' = TRUE
                                         ELSE /\ entities' = update_entity(popped, entity_to_update,
                                                                 type_id, old_index, new_index)
                                              /\ panicked' = FALSE
                             ELSE /\ entities' = popped
                                  /\ panicked' = FALSE
                                  /\ call' = [call EXCEPT !.removals = @ + 1,
                                                          !.repoint = <<>>]

\* remove_entity with the assert! replaced by a get-or-insert of the entry
remove_entity_or_default(entity) ==
    /\ pc = "idle" /\ ~panicked
    /\ call' = [op |-> "remove_entity", entity |-> entity, before |-> scene,
                removals |-> 0, repoint |-> <<>>]
    /\ entities' = IF entity \in DOMAIN entities THEN entities
                   ELSE insert(entities, entity, <<>>)
    /\ panicked' = FALSE
    /\ pc' = "remove_entity"
    /\ UNCHANGED <<inner_types, engine_vars>>
    /\ UNCHANGED <<component_vecs, spawns, removes, returned, camera, ever_added, adds>>

\* Scene::remove_entity(entity): the assert! and the entry into the loop
remove_entity(entity) ==
    /\ pc = "idle" /\ ~panicked
    /\ call' = [op |-> "remove_entity", entity |-> entity, before |-> scene,
                removals |-> 0, repoint |-> <<>>]
    /\ IF entity \notin DOMAIN entities
       THEN /\ panicked' = TRUE
            /\ pc' = pc
       ELSE /\ panicked' = FALSE
            /\ pc' = "remove_entity"
    /\ UNCHANGED <<inner_types, engine_vars>>
    /\ UNCHANGED <<entities, component_vecs, spawns, removes, returned,
                   camera, ever_added, adds>>

\* Scene::remove_entity: one iteration of the while loop
remove_entity_loop ==
    /\ pc = "remove_entity" /\ ~panicked
    /\ entities[call.entity] # <<>>
    /\ entity_remove_last_component(call.entity)
    /\ UNCHANGED <<inner_types, engine_vars>>
    /\ UNCHANGED <<pc, spawns, removes, returned, camera, ever_added, adds>>

\* Scene::remove_entity: the loop is over, the directory entry is deleted
remove_entity_return ==
    /\ pc = "remove_entity" /\ ~panicked
    /\ entities[call.entity] = <<>>
    /\ entities' = remove(entities, call.entity)
    /\ pc' = "idle"
    /\ removes' = removes + 1
    /\ adds' = remove(adds, call.entity)
    /\ UNCHANGED <<inner_types, engine_vars>>
    /\ UNCHANGED <<component_vecs, panicked, call, spawns, returned, camera, ever_added>>

Next ==
    \/ spawn_entity
    \/ \E entity \in Handles, T \in Types, component \in Values :
          entity_add_component(entity, T, component)
    \/ \E entity \in Handles : remove_entity(entity)
    \/ remove_entity_loop
    \/ remove_entity_return

Spec == Init /\ [][Next]_vars

----------------------------------------------------------------------------
\* Read accessors of the Scene and the renderer that consumes them

\* Option: None and Some(x)
None == <<>>
Some(x) == <<x>>

\* components that reports an emptied column as absent
components_nonempty(T) ==
    IF T \in DOMAIN component_vecs /\ inner_types[T] = T /\ component_vecs[T] # <<>>
    THEN Some(component_vecs[T]) ELSE None

\* Scene::components::<T>(): downcast_ref gives None for a box of another type
components(T) ==
    IF T \in DOMAIN component_vecs /\ inner_types[T] = T
    THEN Some(component_vecs[T]) ELSE None

store_unchanged ==
    UNCHANGED <<entities, component_vecs, pc, spawns, removes, returned,
                ever_added, adds, inner_types, engine_vars>>

\* Scene::set_camera
set_camera ==
    /\ pc = "idle" /\ ~panicked
    /\ camera' = TRUE
    /\ call' = [op |-> "set_camera"]
    /\ UNCHANGED panicked
    /\ store_unchanged

\* Renderer::record_draw_command_buffer / record_debug_draw_command_buffer:
\* TRUE when one of the two unwrap() calls on the scene panics (the camera,
\* then the MeshComponent column).
record_draw_command_buffer_panics ==
    \/ ~camera
    \/ components("MeshComponent") = None

\* Renderer::render_scene(scene), as far as the scene decides its outcome
render_scene ==
    /\ pc = "idle" /\ ~panicked
    /\ call' = [op |-> "render_scene"]
    /\ panicked' = record_draw_command_buffer_panics
    /\ UNCHANGED camera
    /\ store_unchanged

\* entity_components answering an unknown handle with an empty list
entity_components_or_default(entity) ==
    /\ pc = "idle" /\ ~panicked
    /\ panicked' = FALSE
    /\ call' = [op |-> "entity_components", entity |-> entity,
                result |-> IF entity \in DOMAIN entities THEN entities[entity] ELSE <<>>]
    /\ UNCHANGED camera
    /\ store_unchanged

\* Scene::entity_components(entity)
entity_components(entity) ==
    /\ pc = "idle" /\ ~panicked
    /\ IF entity \notin DOMAIN entities
       THEN \* assert! fails
            /\ panicked' = TRUE
            /\ call' = [op |-> "entity_components", entity |-> entity]
       ELSE /\ panicked' = FALSE
            /\ call' = [op |-> "entity_components", entity |-> entity,
                        result |-> entities[entity]]
    /\ UNCHANGED camera
    /\ store_unchanged

\* The orders in which a HashMap may hand out the keys S
RECURSIVE orderings(_)
orderings(S) ==
    IF S = {}
    THEN {<<>>}
    ELSE UNION {{<<x>> \o rest : rest \in orderings(S \ {x})} : x \in S}

\* Scene::entities(): the keys of the directory, in an order of the HashMap
entities_keys ==
    orderings(DOMAIN entities)

\* seq with x put before the first element that is not below it
RECURSIVE sort_insert(_, _)
sort_insert(seq, x) ==
    IF seq = <<>> THEN <<x>>
    ELSE IF x <= Head(seq) THEN <<x>> \o seq
    ELSE <<Head(seq)>> \o sort_insert(Tail(seq), x)

\* the elements of seq in ascending order
RECURSIVE ascending(_)
ascending(seq) ==
    IF seq = <<>> THEN <<>>
    ELSE sort_insert(ascending(Tail(seq)), Head(seq))

\* a sort that leaves the list as it got it
sort_not(seq) ==
    seq

\* Vec::sort on the list of handles
sort(seq) ==
    ascending(seq)

\* std::any::type_name::<T>() cut at the colons: module path, then the type
type_name(T) ==
    IF T = "MeshComponent"
    THEN <<"vulkan_engine", "engine", "ecs", "components", "MeshComponent">>
    ELSE <<"vulkan_engine", "engine", "ecs", "tests", T>>

\* ComponentVec::inner_type_name of the column registered under key
inner_type_name(key) ==
    type_name(inner_types[key])

\* inner_type_name().split(":").last().unwrap()
component_name(key) ==
    LET split == inner_type_name(key)
    IN  split[Len(split)]

\* impl Display for Scene, fmt: call.entities holds the lines of the
\* "Entities" block, call.columns the lines written per column.  Indexing
\* component_vecs with a key it does not hold panics.
fmt ==
    /\ pc = "idle" /\ ~panicked
    /\ \E keys \in entities_keys, registry \in orderings(DOMAIN component_vecs) :
          LET sorted == sort(keys)
          IN  IF \E e \in DOMAIN entities : \E j \in 1..Len(entities[e]) :
                     entities[e][j][1] \notin DOMAIN component_vecs
              THEN /\ panicked' = TRUE
                   /\ call' = [op |-> "fmt"]
              ELSE /\ panicked' = FALSE
                   /\ call' =
                        [op |-> "fmt",
                         entities |->
                            [n \in 1..Len(sorted) |->
                                LET entity == sorted[n]
                                    refs == entities[entity]
                                IN  <<entity,
                                      [j \in 1..Len(refs) |->
                                          <<component_name(refs[j][1]), refs[j][2]>>]>>],
                         columns |->
                            [n \in 1..Len(registry) |->
                                LET component_vec == component_vecs[registry[n]]
                                IN  <<component_name(registry[n]),
                                      [i \in 1..len(component_vec) |->
                                          get_entity(component_vec, i - 1)]>>]]
    /\ UNCHANGED camera
    /\ store_unchanged

NextRead ==
    \/ Next
    \/ set_camera
    \/ render_scene
    \/ \E entity \in Handles : entity_components(entity)
    \/ fmt

\* The store with its readers
SpecRead == Init /\ [][NextRead]_vars

-----------------------------------------------------------------------------
\* InputHandler and the event loop of Application

\* Most events one frame takes in
MaxFrameEvents == 3

\* KeyCode values: an ordinary key and the one handle_window_event looks at
Keys == {"KeyW", "Escape"}

\* WindowEvent::KeyboardInput with a KeyEvent for a PhysicalKey::Code(key)
KeyboardInput(key, state, repeat) ==
    [kind |-> "KeyboardInput", key |-> key, state |-> state, repeat |-> repeat]

\* The window events of the model: key presses (first and repeated), key
\* releases, the request to close and CursorMoved, which stands for the
\* events that touch no key.  The events that go to the graphics device
\* (Resized, RedrawRequested, Suspended, Resumed) are left out.
WindowEvents ==
    {KeyboardInput(key, "Pressed", repeat) : key \in Keys, repeat \in BOOLEAN}
        \cup {KeyboardInput(key, "Released", FALSE) : key \in Keys}
        \cup {[kind |-> "CursorMoved"], [kind |-> "CloseRequested"]}

WindowEvent(window_event) ==
    [type |-> "WindowEvent", event |-> window_event]

\* winit::event::Event
Events ==
    {[type |-> "NewEvents"], [type |-> "AboutToWait"], [type |-> "DeviceEvent"]}
        \cup {WindowEvent(window_event) : window_event \in WindowEvents}

\* InputHandler::update_key_press
update_key_press(self, key_code) ==
    insert(self, key_code, "Pressed")

\* InputHandler::update_key_release
update_key_release(self, key_code) ==
    insert(self, key_code, "Released")

\* InputHandler::update_window_event: only a KeyboardInput with repeat:
\* false reaches the keyboard state
update_window_event(self, window_event) ==
    IF window_event.kind = "KeyboardInput" /\ ~window_event.repeat
    THEN IF window_event.state = "Pressed"
         THEN update_key_press(self, window_event.key)
         ELSE update_key_release(self, window_event.key)
    ELSE self

\* InputHandler::update, on the keyboard state self
updated(self, event) ==
    IF event.type = "WindowEvent"
    THEN update_window_event(self, event.event)
    ELSE self

\* a step that keeps the Released entries
stepped_keep_released(self) ==
    [key_code \in DOMAIN self |->
        IF self[key_code] = "Released" THEN "Released" ELSE "Held"]

\* InputHandler::step, on the keyboard state self: Pressed and Held become
\* Held, every other entry is dropped
stepped(self) ==
    [key_code \in {k \in DOMAIN self : self[k] \in {"Pressed", "Held"}} |-> "Held"]

\* InputHandler::key_pressed
key_pressed(self, key_code) ==
    IF key_code \in DOMAIN self THEN self[key_code] = "Pressed" ELSE FALSE

\* InputHandler::key_released
key_released(self, key_code) ==
    IF key_code \in DOMAIN self THEN self[key_code] = "Released" ELSE FALSE

\* InputHandler::key_held
key_held(self, key_code) ==
    IF key_code \in DOMAIN self
    THEN self[key_code] = "Held" \/ self[key_code] = "Pressed"
    ELSE FALSE

\* InputHandler::step; call.before keeps the keyboard state it found
step ==
    /\ keyboard_state' = stepped(keyboard_state)
    /\ frame_events' = <<>>
    /\ call' = [op |-> "step", before |-> keyboard_state]
    /\ UNCHANGED <<phase, exit_on_escape, reported>>
    /\ UNCHANGED <<scene_vars, material_vars, panicked>>

\* InputHandler::update(event)
update(event) ==
    /\ Len(frame_events) < MaxFrameEvents
    /\ keyboard_state' = updated(keyboard_state, event)
    /\ frame_events' = Append(frame_events, event)
    /\ call' = [op |-> "update", event |-> event, before |-> keyboard_state]
    /\ UNCHANGED <<phase, exit_on_escape, reported>>
    /\ UNCHANGED <<scene_vars, material_vars, panicked>>

NextInput ==
    \/ step
    \/ \E event \in Events : update(event)

\* The input handler, called in any order
SpecInput == Init /\ [][NextInput]_vars

\* Application::handle_window_event: TRUE when it asks the event loop to exit
handle_window_event_exits(window_event) ==
    \/ window_event.kind = "CloseRequested"
    \/ /\ window_event.kind = "KeyboardInput"
       /\ window_event.key = "Escape"
       /\ window_event.state = "Pressed"
       /\ exit_on_escape

\* Application::handle_event(event), with the order in which the event
\* loop hands out events: NewEvents, then the window and device events of
\* the frame, then AboutToWait.  keep_running is what on_update returns;
\* reported is what key_held answers during that on_update call.
handle_event(event, keep_running) ==
    /\ phase # "Exited"
    /\ CASE event.type = "NewEvents" -> phase = "NewEvents"
         [] event.type = "AboutToWait" -> phase = "Events"
         [] OTHER -> phase = "Events" /\ Len(frame_events) < MaxFrameEvents
    /\ event.type # "AboutToWait" => keep_running
    /\ LET self == IF event.type = "NewEvents"
                   THEN stepped(keyboard_state)
                   ELSE keyboard_state
       IN  /\ keyboard_state' = updated(self, event)
           /\ reported' =
                 CASE event.type = "NewEvents" -> None
                   [] event.type = "AboutToWait" ->
                        Some({key \in Keys : key_held(self, key)})
                   [] OTHER -> reported
    /\ frame_events' =
          Append(IF event.type = "NewEvents" THEN <<>> ELSE frame_events, event)
    /\ phase' =
          CASE event.type = "NewEvents" -> "Events"
            [] event.type = "AboutToWait" ->
                 IF keep_running THEN "NewEvents" ELSE "Exited"
            [] event.type = "WindowEvent" ->
                 IF handle_window_event_exits(event.event) THEN "Exited" ELSE "Events"
            [] OTHER -> "Events"
    /\ call' = [op |-> "handle_event", event |-> event, before |-> keyboard_state]
    /\ UNCHANGED exit_on_escape
    /\ UNCHANGED <<scene_vars, material_vars, panicked>>

NextApp ==
    \E event \in Events, keep_running \in BOOLEAN : handle_event(event, keep_running)

\* Application::run_application with either setting of exit_on_escape
InitApp ==
    \E flag \in BOOLEAN : run_application([exit_on_escape |-> flag])

\* The application's event loop with its input handler
SpecApp == InitApp /\ [][NextApp]_vars

-----------------------------------------------------------------------------
\* MaterialManager

\* Most new_material calls of one run
MaxMaterials == 4

\* Material values handed to new_material
Materials == {"red", "green"}

\* The MaterialBuffer new_material builds for material when `created`
\* descriptor sets exist already: every PersistentDescriptorSet::new gives
\* a set of its own, named here by its ordinal.
MaterialBuffer(material, created) ==
    [_material |-> material, descriptor_set |-> created]

\* new_material handing out the counter after the increment
new_material_counted_first(material, allocated) ==
    /\ ~panicked
    /\ next_id < MaxMaterials
    /\ next_id' = next_id + 1
    /\ LET id == next_id'
       IN  IF ~allocated
           THEN /\ panicked' = TRUE
                /\ call' = [op |-> "new_material", material |-> material]
                /\ UNCHANGED <<materials, issued>>
           ELSE LET entry == MaterialBuffer(material, Len(materials))
                IN  /\ materials' = Append(materials, entry)
                    /\ issued' = Append(issued, <<id, entry>>)
                    /\ call' = [op |-> "new_material", material |-> material,
                                result |-> id]
                    /\ UNCHANGED panicked
    /\ UNCHANGED <<scene_vars, input_vars>>

\* MaterialManager::new_material(material), reached through
\* Scene::new_material.  The id is taken and next_id incremented before the
\* buffer and the descriptor set are allocated; when an allocation fails
\* (allocated = FALSE) the expect() panics with nothing pushed.
new_material(material, allocated) ==
    /\ ~panicked
    /\ next_id < MaxMaterials
    /\ next_id' = next_id + 1
    /\ LET id == next_id
       IN  IF ~allocated
           THEN /\ panicked' = TRUE
                /\ call' = [op |-> "new_material", material |-> material]
                /\ UNCHANGED <<materials, issued>>
           ELSE LET entry == MaterialBuffer(material, Len(materials))
                IN  /\ materials' = Append(materials, entry)
                    /\ issued' = Append(issued, <<id, entry>>)
                    /\ call' = [op |-> "new_material", material |-> material,
                                result |-> id]
                    /\ UNCHANGED panicked
    /\ UNCHANGED <<scene_vars, input_vars>>

\* MaterialManager::descriptor_set(material_id): indexing past the end panics
descriptor_set(material_id) ==
    /\ ~panicked
    /\ IF material_id >= Len(materials)
       THEN /\ panicked' = TRUE
            /\ call' = [op |-> "descriptor_set", material_id |-> material_id]
       ELSE /\ call' = [op |-> "descriptor_set", material_id |-> material_id,
                        result |-> materials[material_id + 1].descriptor_set]
            /\ UNCHANGED panicked
    /\ UNCHANGED <<next_id, materials, issued>>
    /\ UNCHANGED <<scene_vars, input_vars>>

NextMaterial ==
    \/ \E material \in Materials, allocated \in BOOLEAN : new_material(material, allocated)
    \/ \E material_id \in 0..MaxMaterials : descriptor_set(material_id)

\* The material manager of a scene
SpecMaterial == Init /\ [][NextMaterial]_vars

----------------------------------------------------------------------------
\* Vocabulary of the properties

\* The caller is between two calls that returned.
Returned == pc = "idle" /\ ~panicked

\* Positions of the references equal to (type_id, index) in a reference list
positions(refs, type_id, index) ==
    {j \in 1..Len(refs) : refs[j] = <<type_id, index>>}

\* Positions of the references into the column of type_id in a reference list
references_into(refs, type_id) ==
    {j \in 1..Len(refs) : refs[j][1] = type_id}

\* Entities named by the rows of a column
owners(vec) ==
    {vec[j][1] : j \in 1..Len(vec)}

\* Sum of f over the finite set S
RECURSIVE sum_over(_, _)
sum_over(f, S) ==
    IF S = {} THEN 0
    ELSE LET x == CHOOSE y \in S : TRUE
         IN  f[x] + sum_over(f, S \ {x})

----------------------------------------------------------------------------
\* C1: in every state, for every live entity e and every reference (k, i)
\* of e's list, the column registered under k has a row at index i and the
\* entity field of that row is e.
C1_ReferencesNameOwnRows ==
    \A e \in DOMAIN entities :
        \A j \in 1..Len(entities[e]) :
            LET k == entities[e][j][1]
                i == entities[e][j][2]
            IN  /\ k \in DOMAIN component_vecs
                /\ i < len(component_vecs[k])
                /\ get_entity(component_vecs[k], i) = e

\* A remove_entity call returned and repointed a reference of a surviving
\* entity (its index differs from the one it had when the call began).
C1_Witness ==
    /\ Returned
    /\ call.op = "remove_entity"
    /\ \E e \in DOMAIN entities :
          \E j \in 1..Len(entities[e]) :
              entities[e][j] # call.before.entities[e][j]

\* C2: after every sequence of calls, for every column k and every row
\* index i of it holding entity e, the reference list of e contains exactly
\* one reference equal to (k, i).
C2_RowsAreReferencedOnce ==
    Returned =>
        \A k \in DOMAIN component_vecs :
            \A i \in 0..(len(component_vecs[k]) - 1) :
                LET e == get_entity(component_vecs[k], i)
                IN  /\ e \in DOMAIN entities
                    /\ Cardinality(positions(entities[e], k, i)) = 1

\* C3: spawn_entity never returns a handle that an earlier spawn_entity
\* call returned, whether that entity is still live or was removed.
C3_SpawnReturnsFreshHandle ==
    [][(spawns' = spawns + 1) => (call'.entity \notin returned)]_vars

\* C4: after every sequence of calls, every row of every column names an
\* entity that is live (a removed entity has left no row behind).
C4_RowsNameLiveEntities ==
    Returned =>
        \A k \in DOMAIN component_vecs :
            owners(component_vecs[k]) \subseteq DOMAIN entities

\* C5: after every sequence of calls, entity_count() equals the number of
\* spawn_entity calls minus the number of remove_entity calls that succeeded.
C5_CountIsSpawnsMinusRemoves ==
    Returned => entity_count = spawns - removes

\* C6: after every sequence of calls, for every column the number of
\* references into it summed over the live entities equals its length, and
\* the entities owning a reference into it are the entities its rows name.
C6_ReferencesMatchColumn ==
    Returned =>
        \A k \in DOMAIN component_vecs :
            /\ sum_over([e \in DOMAIN entities |->
                            Cardinality(references_into(entities[e], k))],
                        DOMAIN entities) = len(component_vecs[k])
            /\ {e \in DOMAIN entities : references_into(entities[e], k) # {}}
                   = owners(component_vecs[k])

\* Number of rows of a column equal to row
occurrences(vec, row) ==
    Cardinality({j \in 1..Len(vec) : vec[j] = row})

\* C7: remove_entity(e) for a live e returns with e absent from entities(),
\* each column shorter by the number of references e held into it, and
\* every row of every other entity still in its column, value unchanged.
C7_RemoveEntityRemovesOwnRowsOnly ==
    (call.op = "remove_entity" /\ call.entity \in DOMAIN call.before.entities) =>
        /\ ~panicked
        /\ pc = "idle" =>
              /\ call.entity \notin DOMAIN entities
              /\ \A k \in DOMAIN call.before.component_vecs :
                    /\ k \in DOMAIN component_vecs
                    /\ len(component_vecs[k]) =
                           len(call.before.component_vecs[k])
                           - Cardinality(references_into(
                                 call.before.entities[call.entity], k))
                    /\ \A j \in 1..Len(call.before.component_vecs[k]) :
                          LET row == call.before.component_vecs[k][j]
                          IN  row[1] # call.entity =>
                                  occurrences(component_vecs[k], row) >=
                                  occurrences(call.before.component_vecs[k], row)

\* C8: when the component row removed at index i is not the last row of
\* its column, the row that was last occupies index i afterwards, the
\* reference (key, old_last_index) of that row's owner has become (key, i),
\* and the rows other than i and old_last_index keep their index.
C8_LastRowMovesAndIsRepointed ==
    [][(pc = "remove_entity" /\ ~panicked
        /\ entities[call.entity] # <<>>)
       =>
       LET refs == entities[call.entity]
           key == refs[Len(refs)][1]
           i == refs[Len(refs)][2]
           vec == component_vecs[key]
           old_last_index == len(vec) - 1
           owner == get_entity(vec, old_last_index)
       IN  i < old_last_index =>
              /\ len(component_vecs'[key]) = old_last_index
              /\ component_vecs'[key][i + 1] = vec[old_last_index + 1]
              /\ \A j \in 0..(old_last_index - 1) :
                    j # i => component_vecs'[key][j + 1] = vec[j + 1]
              /\ owner \in DOMAIN entities'
              /\ \E j \in 1..Len(entities'[owner]) :
                    /\ entities[owner][j] = <<key, old_last_index>>
                    /\ entities'[owner][j] = <<key, i>>
      ]_vars

\* C9: entity_add_component::<T>(e, v) for a live e lengthens the column of
\* T by one row, the new last row is (e, v), and (T, length of the column
\* before the call) is appended as the last reference of e; the column has
\* length 0 before the call that creates it.
C9_AddComponentAppendsRowAndReference ==
    [][(call'.op = "entity_add_component" /\ ~panicked')
       =>
       LET e == call'.entity
           T == call'.type_id
           v == call'.component
           before_len == IF T \in DOMAIN component_vecs
                         THEN len(component_vecs[T]) ELSE 0
       IN  /\ T \in DOMAIN component_vecs'
           /\ len(component_vecs'[T]) = before_len + 1
           /\ component_vecs'[T][before_len + 1] = <<e, v>>
           /\ entities'[e] = Append(entities[e], <<T, before_len>>)
      ]_vars

\* An entity_add_component call has just returned after pushing onto a
\* column that already held a row, and the other column has been created.
C9_Witness ==
    /\ Returned
    /\ call.op = "entity_add_component"
    /\ len(component_vecs[call.type_id]) >= 2
    /\ entities[call.entity][Len(entities[call.entity])]
           = <<call.type_id, len(component_vecs[call.type_id]) - 1>>
    /\ \E T \in DOMAIN component_vecs : T # call.type_id

\* C10: remove_entity(e) for a handle e that is not in the directory is
\* rejected before any mutation: the call panics and the directory, the
\* reference lists and the columns are what they were.
C10_RemoveUnknownEntityRejected ==
    [][(pc = "idle" /\ call'.op = "remove_entity"
        /\ call'.entity \notin DOMAIN entities)
       =>
       /\ panicked'
       /\ pc' = "idle"
       /\ entities' = entities
       /\ component_vecs' = component_vecs
      ]_vars

\* remove_entity was rejected for an unknown handle on a store that holds
\* entities and components.
C10_Witness ==
    /\ panicked
    /\ pc = "idle"
    /\ call.op = "remove_entity"
    /\ call.entity \notin DOMAIN entities
    /\ entities # <<>>
    /\ \E k \in DOMAIN component_vecs : component_vecs[k] # <<>>

\* Component types of a reference list, in list order
types_of(refs) ==
    [j \in 1..Len(refs) |-> refs[j][1]]

\* C11: entity_add_component::<T>(e, v) for a handle e that is not in the
\* directory is rejected before any mutation: the call panics, no row is
\* appended, no column is created (components::<T>() stays None) and no
\* reference list changes.
C11_AddToUnknownEntityRejected ==
    [][(pc = "idle" /\ call'.op = "entity_add_component"
        /\ call'.entity \notin DOMAIN entities)
       =>
       /\ panicked'
       /\ entities' = entities
       /\ component_vecs' = component_vecs
       /\ \A T \in Types : components(T) = None => components(T)' = None
      ]_vars

\* entity_add_component was rejected for an unknown handle and a type that
\* has no column, on a store that holds entities.
C11_Witness ==
    /\ panicked
    /\ pc = "idle"
    /\ call.op = "entity_add_component"
    /\ call.entity \notin DOMAIN entities
    /\ components(call.type_id) = None
    /\ entities # <<>>

\* C12: components::<T>() is None as long as no component of type T has
\* been added, and Some in every state from the first successful
\* entity_add_component::<T> on, also when every row has been removed.
C12_ColumnAppearsOnFirstAddAndStays ==
    /\ [](\A T \in Types : components(T) = None <=> T \notin ever_added)
    /\ [][\A T \in Types : components(T) # None => components(T)' # None]_vars

\* A remove_entity call returned and left a registered column empty.
C12_Witness ==
    /\ Returned
    /\ call.op = "remove_entity"
    /\ \E T \in ever_added :
          /\ components(T) = Some(<<>>)
          /\ call.before.component_vecs[T] # <<>>

\* C13: for every live entity e the length of its reference list equals
\* the number of entity_add_component calls made for e, and the removal of
\* another entity does not change the length of e's list.
C13_ListLengthIsNumberOfAdds ==
    Returned =>
        /\ \A e \in DOMAIN entities : Len(entities[e]) = Len(adds[e])
        /\ call.op = "remove_entity" =>
              \A e \in DOMAIN entities :
                  e \in DOMAIN call.before.entities =>
                      Len(entities[e]) = Len(call.before.entities[e])

\* C14: rendering a scene (with a camera) for which no MeshComponent has
\* ever been added, components::<MeshComponent>() being None, completes
\* without failure.
C14_RenderToleratesAbsentColumn ==
    [][(pc = "idle" /\ call'.op = "render_scene" /\ camera
        /\ components("MeshComponent") = None)
       => ~panicked'
      ]_vars

\* C15: entity_components(e) is rejected for a handle that is not in the
\* directory, and for a live e it returns e's current reference list; in
\* both cases the store is left as it was.
C15_EntityComponentsReadsList ==
    [][(pc = "idle" /\ call'.op = "entity_components")
       =>
       /\ entities' = entities
       /\ component_vecs' = component_vecs
       /\ IF call'.entity \in DOMAIN entities
          THEN ~panicked' /\ call'.result = entities[call'.entity]
          ELSE panicked'
      ]_vars

\* entity_components returned the non-empty list of a live entity.
C15_Witness ==
    /\ Returned
    /\ call.op = "entity_components"
    /\ call.entity \in DOMAIN entities
    /\ call.result # <<>>
    /\ call.result = entities[call.entity]

\* C16: a live entity stops being live only through remove_entity applied
\* to its own handle: every step that deletes a directory entry is the
\* return of remove_entity for that handle.
C16_OnlyOwnRemoveDeletesEntry ==
    [][\A e \in DOMAIN entities :
          e \notin DOMAIN entities' =>
              (pc = "remove_entity" /\ call.op = "remove_entity" /\ call.entity = e)
      ]_vars

\* remove_entity returned for one of several live entities: it is gone and
\* the others are still live.
C16_Witness ==
    /\ Returned
    /\ call.op = "remove_entity"
    /\ call.entity \notin DOMAIN entities
    /\ DOMAIN entities = DOMAIN call.before.entities \ {call.entity}
    /\ \E e \in DOMAIN entities : e > call.entity

\* C17: spawn_entity leaves the reference list of every entity that was
\* live and every column unchanged; it only adds one directory entry with
\* an empty list.
C17_SpawnOnlyAddsEmptyEntry ==
    [][(spawns' = spawns + 1)
       =>
       /\ \A e \in DOMAIN entities :
             e \in DOMAIN entities' /\ entities'[e] = entities[e]
       /\ component_vecs' = component_vecs
       /\ DOMAIN entities' = DOMAIN entities \cup {call'.entity}
       /\ call'.entity \notin DOMAIN entities
       /\ entities'[call'.entity] = <<>>
      ]_vars

\* C18: whenever a component removal moves a row (the removed index is
\* below the new length of the column), the entity of the moved row is
\* live and its list holds exactly one reference (key, old_last_index), so
\* the removal does not abort.
C18_MovedRowHasLiveOwnerAndOneReference ==
    [][(pc = "remove_entity" /\ ~panicked /\ entities[call.entity] # <<>>)
       =>
       LET refs == entities[call.entity]
           key == refs[Len(refs)][1]
           i == refs[Len(refs)][2]
           vec == component_vecs[key]
           old_last_index == len(vec) - 1
           owner == get_entity(vec, old_last_index)
           popped == [entities EXCEPT ![call.entity] = pop(refs)]
       IN  /\ ~panicked'
           /\ i < old_last_index =>
                 /\ owner \in DOMAIN entities
                 /\ Cardinality(positions(popped[owner], key, old_last_index)) = 1
      ]_vars

\* C19: remove_entity(e) on a live entity with n references performs
\* exactly n component removals, each one removing the reference that is
\* last in e's list and one row of its column, and deletes the directory
\* entry of e only after them.
C19_RemoveEntityPopsEveryReference ==
    /\ []((call.op = "remove_entity" /\ call.entity \in DOMAIN call.before.entities)
          => /\ ~panicked
             /\ pc = "idle" =>
                   call.removals = Len(call.before.entities[call.entity]))
    /\ [][(pc = "remove_entity" /\ ~panicked /\ entities[call.entity] # <<>>)
          =>
          LET refs == entities[call.entity]
              key == refs[Len(refs)][1]
          IN  /\ call.entity \in DOMAIN entities'
              /\ types_of(entities'[call.entity]) = types_of(pop(refs))
              /\ len(component_vecs'[key]) = len(component_vecs[key]) - 1
         ]_vars
    /\ [][(call.op = "remove_entity" /\ call.entity \in DOMAIN entities
           /\ call.entity \notin DOMAIN entities')
          => entities[call.entity] = <<>>
         ]_vars

\* C20: for every live entity the component types of its reference list,
\* in list order, are the types of the entity_add_component calls made for
\* it, in call order; a component removal changes neither the length nor
\* the types of the list of any other entity.
C20_ListKeepsInsertionOrder ==
    /\ [](Returned => \A e \in DOMAIN entities : types_of(entities[e]) = adds[e])
    /\ [][(pc = "remove_entity" /\ ~panicked /\ entities[call.entity] # <<>>)
          =>
          \A f \in DOMAIN entities \ {call.entity} :
              /\ f \in DOMAIN entities'
              /\ types_of(entities'[f]) = types_of(entities[f])
         ]_vars

C22_RepointExactlyWhenNotLastRow ==
    [][(pc = "remove_entity" /\ ~panicked /\ entities[call.entity] # <<>>)
       =>
       LET refs == entities[call.entity]
           key == refs[Len(refs)][1]
           i == refs[Len(refs)][2]
           vec == component_vecs[key]
           n == len(vec)
           popped == [entities EXCEPT ![call.entity] = pop(refs)]
       IN  /\ i = n - 1 =>
                 /\ component_vecs'[key] = SubSeq(vec, 1, n - 1)
                 /\ entities' = popped
                 /\ call'.repoint = None
           /\ call'.repoint # None <=> i # n - 1
           /\ call'.repoint # None =>
                 /\ call'.repoint[1][2] = key
                 /\ call'.repoint[1][3] = n - 1
                 /\ call'.repoint[1][4] = i
      ]_vars

\* The first component removal of a remove_entity call took the last of
\* the two rows of a column, without a repoint.
C22_Witness ==
    /\ ~panicked
    /\ call.op = "remove_entity"
    /\ call.removals = 1
    /\ call.repoint = None
    /\ \E k \in DOMAIN component_vecs :
          /\ len(call.before.component_vecs[k]) = 2
          /\ len(component_vecs[k]) = 1
          /\ component_vecs[k][1] = call.before.component_vecs[k][1]

\* C23: in every state every key of the registry holds a column whose
\* inner_type_id is that key, components::<T>() gives the column of every
\* registered T, and an entity_add_component call for a live entity does
\* not fail.
C23_ColumnsStoredUnderOwnType ==
    /\ [](/\ DOMAIN inner_types = DOMAIN component_vecs
          /\ \A key \in DOMAIN component_vecs : inner_type_id(key) = key
          /\ \A T \in DOMAIN component_vecs : components(T) = Some(component_vecs[T]))
    /\ [][(call'.op = "entity_add_component" /\ call'.entity \in DOMAIN entities)
          => ~panicked'
         ]_vars

\* An entity_add_component call pushed onto an existing column, through
\* the downcast, and both component types have a column.
C23_Witness ==
    /\ Returned
    /\ call.op = "entity_add_component"
    /\ len(component_vecs[call.type_id]) = 2
    /\ DOMAIN component_vecs = Types

\* C24: before the first spawn entity_count() is 0; while no remove_entity
\* call has removed an entity, entity_count() is the number of spawn_entity
\* calls made and the next spawn_entity call returns that number as handle.
C24_FreshSceneCountsFromZero ==
    /\ [](spawns = 0 => entity_count = 0)
    /\ [](removes = 0 => entity_count = spawns)
    /\ [][(spawns' = spawns + 1 /\ removes = 0) => call'.entity = spawns]_vars

\* The third spawn_entity call of a scene that never removed an entity
\* returned handle 2.
C24_Witness ==
    /\ Returned
    /\ removes = 0
    /\ spawns = 3
    /\ call.op = "spawn_entity"
    /\ call.entity = 2

\* C25: a Display dump does not fail and changes nothing in the store; its
\* entity lines carry strictly ascending handles that are exactly the live
\* entities, each with the (component type, index) pairs of its reference
\* list in list order; it has one line per registered column, carrying
\* the owners of the column's rows in row order.
C25_DisplayListsStoreInOrder ==
    [][(pc = "idle" /\ ~panicked /\ call'.op = "fmt")
       =>
       /\ ~panicked'
       /\ entities' = entities /\ component_vecs' = component_vecs
       /\ LET lines == call'.entities
              columns == call'.columns
          IN  /\ {lines[n][1] : n \in 1..Len(lines)} = DOMAIN entities
              /\ \A n \in 1..(Len(lines) - 1) : lines[n][1] < lines[n + 1][1]
              /\ \A n \in 1..Len(lines) :
                    LET refs == entities[lines[n][1]]
                    IN  /\ Len(lines[n][2]) = Len(refs)
                        /\ \A j \in 1..Len(refs) : lines[n][2][j] = refs[j]
              /\ {columns[n][1] : n \in 1..Len(columns)} = DOMAIN component_vecs
              /\ Len(columns) = Cardinality(DOMAIN component_vecs)
              /\ \A n \in 1..Len(columns) :
                    LET vec == component_vecs[columns[n][1]]
                    IN  /\ Len(columns[n][2]) = len(vec)
                        /\ \A i \in 1..len(vec) : columns[n][2][i] = vec[i][1]
      ]_vars

\* A dump of a store with three live entities, one of them with two
\* references, and two columns.
C25_Witness ==
    /\ Returned
    /\ call.op = "fmt"
    /\ Len(call.entities) = 3
    /\ \E n \in 1..3 : Len(call.entities[n][2]) = 2
    /\ Len(call.columns) = 2

\* A non-repeat press of key is among the events taken in since the last step()
pressed_since_step(key) ==
    \E n \in 1..Len(frame_events) :
        frame_events[n] = WindowEvent(KeyboardInput(key, "Pressed", FALSE))

\* A release of key is among the events taken in since the last step()
released_since_step(key) ==
    \E n \in 1..Len(frame_events) :
        frame_events[n] = WindowEvent(KeyboardInput(key, "Released", FALSE))

\* The last non-repeat key event for key since the last step() has this state
last_key_event_is(key, state) ==
    \E n \in 1..Len(frame_events) :
        /\ frame_events[n] = WindowEvent(KeyboardInput(key, state, FALSE))
        /\ \A m \in (n + 1)..Len(frame_events) :
              \A other \in {"Pressed", "Released"} :
                  frame_events[m] # WindowEvent(KeyboardInput(key, other, FALSE))

\* None of key_pressed, key_released, key_held answers TRUE for key
all_false(self, key) ==
    /\ ~key_pressed(self, key)
    /\ ~key_released(self, key)
    /\ ~key_held(self, key)

\* C26: once a non-repeat press of k has been taken in, key_pressed(k) is
\* true in every state up to the next step(); that step leaves
\* key_pressed(k) false and key_held(k) true; and every step other than a
\* release event for k keeps key_held(k) true.
C26_PressedUntilStepThenHeld ==
    /\ [](\A k \in Keys : pressed_since_step(k) => key_pressed(keyboard_state, k))
    /\ [][call'.op = "step"
          => \A k \in Keys :
                pressed_since_step(k) =>
                   /\ ~key_pressed(keyboard_state', k)
                   /\ key_held(keyboard_state', k)
         ]_vars
    /\ [][\A k \in Keys :
             (/\ key_held(keyboard_state, k)
              /\ ~(/\ call'.op = "update"
                    /\ call'.event = WindowEvent(KeyboardInput(k, "Released", FALSE))))
             => key_held(keyboard_state', k)
         ]_vars

\* C27: once a release of k has been taken in, key_released(k) is true
\* and key_held(k) false in every state up to the next step(); that step
\* leaves k without an entry; and while k answers false to key_pressed,
\* key_released and key_held, every step other than a press event for k
\* keeps it so.
C27_ReleasedUntilStepThenAbsent ==
    /\ [](\A k \in Keys :
             released_since_step(k) =>
                /\ key_released(keyboard_state, k)
                /\ ~key_held(keyboard_state, k))
    /\ [][call'.op = "step"
          => \A k \in Keys :
                released_since_step(k) =>
                   /\ k \notin DOMAIN keyboard_state'
                   /\ all_false(keyboard_state', k)
         ]_vars
    /\ [][\A k \in Keys :
             (/\ all_false(keyboard_state, k)
              /\ ~(/\ call'.op = "update"
                    /\ \E repeat \in BOOLEAN :
                          call'.event = WindowEvent(KeyboardInput(k, "Pressed", repeat))))
             => all_false(keyboard_state', k)
         ]_vars

\* C27, with the events that end each phase named: while the last
\* non-repeat key event for k since the last step() is a release,
\* key_released(k) is true and key_held(k) false; a step() that finds
\* key_released(k) true leaves k without an entry; and while k answers
\* false to key_pressed, key_released and key_held, every step other than
\* a non-repeat key event for k keeps it so.
C27_ReleasedUntilStepOrPress ==
    /\ [](\A k \in Keys :
             last_key_event_is(k, "Released") =>
                /\ key_released(keyboard_state, k)
                /\ ~key_held(keyboard_state, k))
    /\ [][call'.op = "step"
          => \A k \in Keys :
                key_released(keyboard_state, k) =>
                   /\ k \notin DOMAIN keyboard_state'
                   /\ all_false(keyboard_state', k)
         ]_vars
    /\ [][\A k \in Keys :
             (/\ all_false(keyboard_state, k)
              /\ ~(/\ call'.op = "update"
                    /\ \E state \in {"Pressed", "Released"} :
                          call'.event = WindowEvent(KeyboardInput(k, state, FALSE))))
             => all_false(keyboard_state', k)
         ]_vars

\* step() has just dropped the Released entry of KeyW and kept Escape held.
C27_Witness ==
    /\ call.op = "step"
    /\ key_released(call.before, "KeyW")
    /\ all_false(keyboard_state, "KeyW")
    /\ key_held(keyboard_state, "Escape")

\* C28: in the event loop, the on_update call of AboutToWait gets
\* key_held(k) true for every key k of which a non-repeat press was
\* delivered since the NewEvents of the frame, whatever else the frame
\* delivered.
C28_PressReachesOnUpdate ==
    [][(phase = "Events" /\ call'.op = "handle_event"
        /\ call'.event.type = "AboutToWait")
       =>
       /\ reported' # None
       /\ \A k \in Keys : pressed_since_step(k) => k \in reported'[1]
      ]_vars

\* C29: while no call has failed, the n-th new_material call that returned
\* has returned n - 1, next_id is the number of stored materials, every
\* returned id indexes the entry its call created, and descriptor_set(id)
\* for a returned id gives the descriptor set of that entry.
C29_MaterialIdsIndexTheirEntries ==
    /\ [](~panicked =>
             /\ next_id = Len(materials)
             /\ \A n \in 1..Len(issued) :
                   /\ issued[n][1] = n - 1
                   /\ issued[n][1] < Len(materials)
                   /\ materials[issued[n][1] + 1] = issued[n][2])
    /\ [][(~panicked /\ call'.op = "descriptor_set")
          => \A n \in 1..Len(issued) :
                issued[n][1] = call'.material_id =>
                   /\ ~panicked'
                   /\ call'.result = issued[n][2].descriptor_set
         ]_vars

\* descriptor_set(2) answered with the set created by the third
\* new_material call, which returned 2.
C29_Witness ==
    /\ ~panicked
    /\ call.op = "descriptor_set"
    /\ call.material_id = 2
    /\ Len(issued) >= 3
    /\ issued[3][1] = 2
    /\ call.result = issued[3][2].descriptor_set

====
